---- MODULE Spec2Model ----
(***************************************************************************)
(* A model of npytools (src/npytools.py): the size formatter _sizeof, the  *)
(* table renderer _tabulate, the info-table builder _array_info_table and  *)
(* the two commands npyshow and npyplot.                                   *)
(*                                                                         *)
(* Texts (Python str) are sequences of one-character strings, so that a    *)
(* text has a length and can be padded, joined, split and parsed.          *)
(* Python ints are unbounded: they are sequences of limbs, most            *)
(* significant first, without leading zeros (<<>> is 0).  Python floats    *)
(* are IEEE-754 doubles: [man |-> m, exp |-> e] stands for m * 2^e, with m *)
(* of exactly Precision bits (or 0); every operation rounds to nearest,    *)
(* ties to even.                                                           *)
(***************************************************************************)
EXTENDS Integers, Sequences, FiniteSets, TLC

VARIABLES
    pc,         \* position in the running function or command
    args,       \* the arguments of the running function or command
    ret,        \* what a function returned (or raised), None before that
    num,        \* _sizeof: the local variable num
    unit,       \* _sizeof: the position in the unit list of the loop variable unit
    idx,        \* npyshow: the position in paths of the current path
    arr,        \* npyshow, npyplot: the local variable arr
    table,      \* npyshow: the local variable table
    stdout,     \* npyshow: what click.echo has written, one entry per call
    mmaps,      \* npyshow: the memory mappings that are open
    edgeitems,  \* numpy's print option edgeitems
    exc,        \* the exception that ended the command, None if none
    calls       \* npyplot: the calls made to matplotlib, in order

vars == <<pc, args, ret, num, unit, idx, arr, table, stdout, mmaps, edgeitems, exc, calls>>

\* Python values are [kind |-> ..., val |-> ...]
None == [kind |-> "None"]

\* ------------------------------------------------------------------------
\* Unbounded naturals (Python int), as limbs of LimbBits bits
\* ------------------------------------------------------------------------

Max(a, b) == IF a >= b THEN a ELSE b
Min(a, b) == IF a <= b THEN a ELSE b

Base == 2^15
LimbBits == 15

RECURSIVE Norm(_)
Norm(s) == IF s = <<>> THEN <<>> ELSE IF Head(s) = 0 THEN Norm(Tail(s)) ELSE s

\* the limbs of a small natural
RECURSIVE Big(_)
Big(n) == IF n = 0 THEN <<>> ELSE Append(Big(n \div Base), n % Base)

\* the limb of weight Base^i
Limb(s, i) == IF i < Len(s) THEN s[Len(s) - i] ELSE 0

RECURSIVE AddLoop(_, _, _, _, _)
AddLoop(a, b, i, c, acc) ==
    IF i >= Max(Len(a), Len(b))
    THEN Norm(<<c>> \o acc)
    ELSE LET t == Limb(a, i) + Limb(b, i) + c
         IN  AddLoop(a, b, i + 1, t \div Base, <<t % Base>> \o acc)

Add(a, b) == AddLoop(a, b, 0, 0, <<>>)

RECURSIVE SubLoop(_, _, _, _, _)
SubLoop(a, b, i, c, acc) ==
    IF i >= Len(a)
    THEN Norm(acc)
    ELSE LET t == Limb(a, i) - Limb(b, i) - c
         IN  SubLoop(a, b, i + 1, IF t < 0 THEN 1 ELSE 0, <<t % Base>> \o acc)

\* a - b, for a >= b
Sub(a, b) == SubLoop(a, b, 0, 0, <<>>)

RECURSIVE MulLoop(_, _, _, _, _)
MulLoop(s, c, i, carry, acc) ==
    IF i >= Len(s)
    THEN Norm(<<carry>> \o acc)
    ELSE LET t == Limb(s, i) * c + carry
         IN  MulLoop(s, c, i + 1, t \div Base, <<t % Base>> \o acc)

\* s * c, for 0 <= c <= Base
MulSmall(s, c) == MulLoop(s, c, 0, 0, <<>>)

RECURSIVE DivLoop(_, _, _, _, _)
DivLoop(s, d, i, rem, q) ==
    IF i > Len(s)
    THEN [q |-> Norm(q), r |-> rem]
    ELSE LET cur == Base * rem + s[i]
         IN  DivLoop(s, d, i + 1, cur % d, Append(q, cur \div d))

\* quotient and remainder of s by d, for 0 < d <= Base
DivSmall(s, d) == DivLoop(s, d, 1, 0, <<>>)

RECURSIVE LexLeq(_, _, _)
LexLeq(a, b, i) ==
    IF i > Len(a) THEN TRUE
    ELSE IF a[i] # b[i] THEN a[i] < b[i]
    ELSE LexLeq(a, b, i + 1)

Leq(a, b) == Len(a) < Len(b) \/ (Len(a) = Len(b) /\ LexLeq(a, b, 1))

Lt(a, b) == ~Leq(b, a)

\* s * c^k
RECURSIVE MulPow(_, _, _)
MulPow(s, c, k) == IF k = 0 THEN s ELSE MulPow(MulSmall(s, c), c, k - 1)

\* the number of bits of a small natural, and of a Python int
RECURSIVE SmallBitLen(_)
SmallBitLen(n) == IF n = 0 THEN 0 ELSE 1 + SmallBitLen(n \div 2)

BitLen(s) == IF s = <<>> THEN 0 ELSE LimbBits * (Len(s) - 1) + SmallBitLen(s[1])

IsOdd(s) == s # <<>> /\ s[Len(s)] % 2 = 1

\* s * 2^k
RECURSIVE Shl(_, _)
Shl(s, k) ==
    IF k = 0 THEN s
    ELSE LET c == Min(k, LimbBits) IN Shl(MulSmall(s, 2^c), k - c)

\* s \div 2^k, and whether the bits shifted out (or sticky) were not all 0
RECURSIVE Shr(_, _, _)
Shr(s, k, sticky) ==
    IF k = 0 THEN [q |-> s, sticky |-> sticky]
    ELSE LET c == Min(k, LimbBits)
             qr == DivSmall(s, 2^c)
         IN  Shr(qr.q, k - c, sticky \/ qr.r # 0)

\* s / 2^k (k may be negative) rounded to an integer, ties to even; sticky
\* tells that s stands for a number slightly above s
ShrRound(s, k, sticky) ==
    IF k <= 0 THEN Shl(s, -k)
    ELSE LET low  == Shr(s, k - 1, sticky)
             qr   == DivSmall(low.q, 2)
         IN  IF qr.r = 1 /\ (low.sticky \/ IsOdd(qr.q))
             THEN Add(qr.q, <<1>>)
             ELSE qr.q

\* decimal digits, most significant first (<<>> for 0)
RECURSIVE ToDigits(_)
ToDigits(s) ==
    IF s = <<>> THEN <<>>
    ELSE LET qr == DivSmall(s, 10) IN Append(ToDigits(qr.q), qr.r)

\* the number with the given digits in the given base, most significant first
RECURSIVE FromDigits(_, _)
FromDigits(ds, base) ==
    IF ds = <<>> THEN <<>>
    ELSE Add(MulSmall(FromDigits(SubSeq(ds, 1, Len(ds) - 1), base), base),
             Big(ds[Len(ds)]))

\* ------------------------------------------------------------------------
\* IEEE-754 doubles (Python float)
\* ------------------------------------------------------------------------

Precision == 53

FZero == [man |-> <<>>, exp |-> 0]

\* q (Precision bits or more) and a sticky flag for what lies below q's last
\* bit, rounded to Precision bits, ties to even: the mantissa and the number
\* of bits dropped.
RoundBits(q, sticky) ==
    LET drop == BitLen(q) - Precision
        m == ShrRound(q, drop, sticky)
    IN  IF BitLen(m) > Precision
        THEN [man |-> DivSmall(m, 2).q, shift |-> drop + 1]
        ELSE [man |-> m, shift |-> drop]

\* float(n) for a Python int n
FloatOfInt(n) ==
    IF n = <<>> THEN FZero
    ELSE IF BitLen(n) <= Precision
    THEN [man |-> Shl(n, Precision - BitLen(n)), exp |-> BitLen(n) - Precision]
    ELSE LET r == RoundBits(n, FALSE) IN [man |-> r.man, exp |-> r.shift]

\* x / d for a double x >= 0 and 0 < d <= Base, correctly rounded: the
\* quotient is taken with at least one bit more than Precision
FDivSmall(x, d) ==
    IF x.man = <<>> THEN FZero
    ELSE LET s  == SmallBitLen(d) + 1
             qr == DivSmall(Shl(x.man, s), d)
             r  == RoundBits(qr.q, qr.r # 0)
         IN  [man |-> r.man, exp |-> x.exp - s + r.shift]

\* the integer part of a non-negative double
FFloor(x) == IF x.exp >= 0 THEN Shl(x.man, x.exp) ELSE Shr(x.man, -x.exp, FALSE).q

\* ------------------------------------------------------------------------
\* Texts
\* ------------------------------------------------------------------------

DigitChars == <<"0", "1", "2", "3", "4", "5", "6", "7", "8", "9">>

DigitText(ds) == [i \in 1..Len(ds) |-> DigitChars[ds[i] + 1]]

\* str(n) for a Python int n >= 0
IntText(n) == IF n = <<>> THEN <<"0">> ELSE DigitText(ToDigits(n))

\* "%.1f" % x: the decimal expansion of x rounded to one decimal, ties to even
FormatF1(x) ==
    LET tenths == ShrRound(MulSmall(x.man, 10), -x.exp, FALSE)
        qr == DivSmall(tenths, 10)
    IN  IntText(qr.q) \o <<".">> \o <<DigitChars[qr.r + 1]>>

\* ------------------------------------------------------------------------
\* _sizeof
\* ------------------------------------------------------------------------

\* a Python number: an int or a float
PyInt(n) == [kind |-> "int", val |-> n]
PyFloat(x) == [kind |-> "float", val |-> x]
PyStr(s) == [kind |-> "str", val |-> s]

AsFloat(v) == IF v.kind = "int" THEN FloatOfInt(v.val) ELSE v.val

\* a variant of LessThan1000: abs(num) <= 1000.0
AtMost1000(v) ==
    LET ip == IF v.kind = "int" THEN v.val ELSE FFloor(v.val)
        whole == v.kind = "int" \/ v.val.exp >= 0
                 \/ ~Shr(v.val.man, -v.val.exp, FALSE).sticky
    IN  Lt(ip, Big(1000)) \/ (ip = Big(1000) /\ whole)

\* abs(num) < 1000.0, for num >= 0; an int is compared exactly
LessThan1000(v) ==
    LET ip == IF v.kind = "int" THEN v.val ELSE FFloor(v.val)
    IN  Lt(ip, Big(1000))

\* num /= 1000.0
TrueDiv1000(v) == PyFloat(FDivSmall(AsFloat(v), 1000))

Units == << <<>>, <<"K">>, <<"M">>, <<"G">>, <<"T">>, <<"P">>, <<"E">>, <<"Z">> >>

SizeofFormat(v, u, suffix) == FormatF1(AsFloat(v)) \o u \o suffix

RECURSIVE SizeofLoop(_, _, _)
SizeofLoop(v, i, suffix) ==
    IF i > Len(Units) THEN SizeofFormat(v, <<"Y">>, suffix)
    ELSE IF LessThan1000(v) THEN SizeofFormat(v, Units[i], suffix)
    ELSE SizeofLoop(TrueDiv1000(v), i + 1, suffix)

_sizeof(v, suffix) == SizeofLoop(PyInt(v), 1, suffix)

\* ------------------------------------------------------------------------
\* Python values and their str()
\* ------------------------------------------------------------------------

PyTuple(s) == [kind |-> "tuple", val |-> s]
PyDtype(name) == [kind |-> "dtype", val |-> name]
PyList(s) == [kind |-> "list", val |-> s]

\* what a call raised instead of returning
Raised(name) == [kind |-> "raised", val |-> name]
IsRaised(v) == v.kind = "raised"

Spaces(k) == [i \in 1..k |-> " "]
Dashes(k) == [i \in 1..k |-> "-"]

SmallText(n) == IntText(Big(n))

RECURSIVE TupleItems(_, _)
TupleItems(s, i) ==
    IF i > Len(s) THEN <<>>
    ELSE SmallText(s[i]) \o (IF i < Len(s) THEN <<",", " ">> ELSE <<>>)
         \o TupleItems(s, i + 1)

\* str(t) for a tuple of ints: "()", "(5,)", "(10, 10)"
TupleText(s) ==
    <<"(">> \o TupleItems(s, 1) \o (IF Len(s) = 1 THEN <<",">> ELSE <<>>) \o <<")">>

\* str(v)
Str(v) ==
    CASE v.kind = "str" -> v.val
      [] v.kind = "int" -> IntText(v.val)
      [] v.kind = "tuple" -> TupleText(v.val)
      [] v.kind = "dtype" -> v.val

\* ------------------------------------------------------------------------
\* _tabulate
\* ------------------------------------------------------------------------

\* max() of the lengths of a non-empty sequence of texts
RECURSIVE MaxLen(_)
MaxLen(ts) ==
    IF Len(ts) = 1 THEN Len(ts[1]) ELSE Max(Len(ts[1]), MaxLen(Tail(ts)))

\* a variant of PadLeftAligned: '{0}'.format(s), no width
NotPadded(s, w) == s

\* '{0: <w}'.format(s): s, then spaces up to the width w
PadLeftAligned(s, w) == s \o Spaces(Max(0, w - Len(s)))

\* '\n'.join(ls)
RECURSIVE JoinLines(_)
JoinLines(ls) ==
    IF ls = <<>> THEN <<>>
    ELSE IF Len(ls) = 1 THEN ls[1]
    ELSE ls[1] \o <<"\n">> \o JoinLines(Tail(ls))

TabulateRow(name, value, a, b) ==
    <<"|", " ">> \o PadLeftAligned(name, a) \o <<" ", "|", " ">>
    \o PadLeftAligned(Str(value), b) \o <<" ", "|">>

\* max() of an empty sequence raises ValueError
_tabulate(tbl) ==
    IF tbl = <<>> THEN Raised("ValueError")
    ELSE LET a == MaxLen([i \in 1..Len(tbl) |-> tbl[i][1]])
             b == MaxLen([i \in 1..Len(tbl) |-> Str(tbl[i][2])])
             header == <<"+">> \o Dashes(a + 2) \o <<"+">> \o Dashes(b + 2) \o <<"+">>
             table_str == [i \in 1..Len(tbl) |-> TabulateRow(tbl[i][1], tbl[i][2], a, b)]
         IN  PyStr(JoinLines(<<header>> \o table_str \o <<header>>))

\* ------------------------------------------------------------------------
\* Arrays
\* ------------------------------------------------------------------------

\* An array is [shape, dtype, itemsize, data]; data counts its elements by
\* value: zero (0), one (1), nan and inf.  The statistics depend on the
\* elements' values only, not on their order.

RECURSIVE Product(_)
Product(s) == IF s = <<>> THEN 1 ELSE Head(s) * Product(Tail(s))

\* arr.size
ArrSize(a) == Product(a.shape)

\* size - np.count_nonzero(arr)
ZeroCount(a) == ArrSize(a) - (a.data.one + a.data.nan + a.data.inf)

\* np.isnan(arr).sum(), np.isinf(arr).sum()
NanCount(a) == a.data.nan
InfCount(a) == a.data.inf

\* nonnan = arr[~np.isnan(arr)], as counts
NonNan(a) == [zero |-> a.data.zero, one |-> a.data.one, inf |-> a.data.inf]
NonNanSize(d) == d.zero + d.one + d.inf

\* a statistic: a finite double or inf
Fin(x) == [cls |-> "fin", val |-> x]
Inf == [cls |-> "inf"]
FOne == FloatOfInt(Big(1))

\* the k-th smallest element (k from 1) of the elements counted by d
Sorted(d, k) ==
    IF k <= d.zero THEN Fin(FZero)
    ELSE IF k <= d.zero + d.one THEN Fin(FOne)
    ELSE Inf

\* nonnan.min(), nonnan.max(), for a non-empty nonnan
StatMin(d) == Sorted(d, 1)
StatMax(d) == Sorted(d, NonNanSize(d))

\* nonnan.mean(): the sum of the elements over their number
StatMean(d) ==
    IF d.inf > 0 THEN Inf
    ELSE Fin(FDivSmall(FloatOfInt(Big(d.one)), NonNanSize(d)))

\* (x + y) / 2 for two statistics
Halfway(x, y) ==
    IF x.cls = "inf" \/ y.cls = "inf" THEN Inf
    ELSE IF x = y THEN x
    ELSE Fin(FDivSmall(FOne, 2))

\* np.median(nonnan): the middle element, or the mean of the two middle ones
StatMedian(d) ==
    LET n == NonNanSize(d)
    IN  IF n % 2 = 1 THEN Sorted(d, (n + 1) \div 2)
        ELSE Halfway(Sorted(d, n \div 2), Sorted(d, n \div 2 + 1))

\* floor(x * 10^p), and x * 10^p rounded to an integer (ties to even)
ScaledFloor(x, p) ==
    LET n == MulPow(x.man, 10, p)
    IN  IF x.exp >= 0 THEN Shl(n, x.exp) ELSE Shr(n, -x.exp, FALSE).q
ScaledRound(x, p) == ShrRound(MulPow(x.man, 10, p), -x.exp, FALSE)

\* the decimal exponent of a double 0 < x < 10^4: the largest e with 10^e <= x
RECURSIVE DecExp(_, _)
DecExp(x, e) == IF Leq(Big(1000), ScaledFloor(x, 3 - e)) THEN e ELSE DecExp(x, e - 1)

ExpText(e) ==
    <<"e", IF e < 0 THEN "-" ELSE "+">>
    \o (IF e > -10 /\ e < 10 THEN <<"0">> ELSE <<>>)
    \o SmallText(IF e < 0 THEN -e ELSE e)

\* "%.3e" % v for a statistic 0 <= v < 10^4 or inf
FormatE3(v) ==
    IF v.cls = "inf" THEN <<"i", "n", "f">>
    ELSE IF v.val.man = <<>>
    THEN <<"0", ".", "0", "0", "0">> \o ExpText(0)
    ELSE LET e == DecExp(v.val, 3)
             s == ScaledRound(v.val, 3 - e)
             carry == Leq(Big(10000), s)
             ds == IF carry THEN <<1, 0, 0, 0>> ELSE ToDigits(s)
         IN  <<DigitChars[ds[1] + 1], ".">> \o DigitText(Tail(ds))
             \o ExpText(IF carry THEN e + 1 ELSE e)

\* '%d (%d%%)' % (count, 100 * float(count) / size)
CountPercent(count, size) ==
    SmallText(count) \o <<" ", "(">>
    \o IntText(FFloor(FDivSmall(FloatOfInt(Big(100 * count)), size)))
    \o <<"%", ")">>

\* ------------------------------------------------------------------------
\* _array_info_table
\* ------------------------------------------------------------------------

L_shape == <<"s", "h", "a", "p", "e">>
L_dtype == <<"d", "t", "y", "p", "e">>
L_filesize == <<"f", "i", "l", "e", "s", "i", "z", "e">>
L_size == <<"s", "i", "z", "e">>
L_min == <<"m", "i", "n">>
L_mean == <<"m", "e", "a", "n">>
L_median == <<"m", "e", "d", "i", "a", "n">>
L_max == <<"m", "a", "x">>
L_zero == <<"z", "e", "r", "o">>
L_nan == <<"n", "a", "n">>
L_inf == <<"i", "n", "f">>

\* the rows every table has
BaseRows(a) ==
    << <<L_shape, PyTuple(a.shape)>>,
       <<L_dtype, PyDtype(a.dtype)>>,
       <<L_filesize, PyStr(_sizeof(Big(ArrSize(a) * a.itemsize), <<>>))>>,
       <<L_size, PyInt(Big(ArrSize(a)))>> >>

\* a variant of StatRows: without the median row
StatRowsNoMedian(a) ==
    LET nonnan == NonNan(a)
    IN  << <<L_min, PyStr(FormatE3(StatMin(nonnan)))>>,
           <<L_mean, PyStr(FormatE3(StatMean(nonnan)))>>,
           <<L_max, PyStr(FormatE3(StatMax(nonnan)))>>,
           <<L_zero, PyStr(CountPercent(ZeroCount(a), ArrSize(a)))>>,
           <<L_nan, PyStr(CountPercent(NanCount(a), ArrSize(a)))>>,
           <<L_inf, PyInt(Big(InfCount(a)))>> >>

\* the rows added with show_stats, for an array with a non-nan element
StatRows(a) ==
    LET nonnan == NonNan(a)
    IN  << <<L_min, PyStr(FormatE3(StatMin(nonnan)))>>,
           <<L_mean, PyStr(FormatE3(StatMean(nonnan)))>>,
           <<L_median, PyStr(FormatE3(StatMedian(nonnan)))>>,
           <<L_max, PyStr(FormatE3(StatMax(nonnan)))>>,
           <<L_zero, PyStr(CountPercent(ZeroCount(a), ArrSize(a)))>>,
           <<L_nan, PyStr(CountPercent(NanCount(a), ArrSize(a)))>>,
           <<L_inf, PyInt(Big(InfCount(a)))>> >>

\* nonnan.min() raises ValueError when no element is left
_array_info_table(a, show_stats) ==
    IF ~show_stats THEN PyList(BaseRows(a))
    ELSE IF NonNanSize(NonNan(a)) = 0 THEN Raised("ValueError")
    ELSE PyList(BaseRows(a) \o StatRows(a))

\* ------------------------------------------------------------------------
\* Calls of _sizeof: the loop, one step per action
\* ------------------------------------------------------------------------

MaxShift == 8
SmallMax == 1100
NearWidth == 101

Idle == /\ num = None /\ unit = 0 /\ idx = 0 /\ arr = None /\ table = None
        /\ stdout = <<>> /\ mmaps = {} /\ edgeitems = 2 /\ exc = None
        /\ calls = <<>>

\* byte counts written in base 1000: two leading digits, then up to MaxShift
\* digits that are all 0 or all 999
LeadDigits == {0, 1, 2, 9, 10, 99, 100, 499, 500, 949, 950, 998, 999}
NextDigits == {0, 1, 49, 50, 51, 499, 500, 949, 950, 951, 999}
FillDigits == {0, 999}

SizeInputs ==
    {Big(n) : n \in 0..SmallMax}
    \cup {Big(n) : n \in (1000000 - NearWidth)..(1000000 + NearWidth)}
    \cup {FromDigits(<<hi, lo>> \o [i \in 1..j |-> f], 1000) :
            hi \in LeadDigits, lo \in NextDigits, f \in FillDigits, j \in 0..MaxShift}

SizeofInit ==
    /\ pc = "sizeof"
    /\ args \in [num : SizeInputs, suffix : {<<>>, <<"B">>}]
    /\ ret = None
    /\ Idle

\* def _sizeof(num, suffix=''): the loop starts at the first unit
SizeofEnter ==
    /\ pc = "sizeof"
    /\ num' = PyInt(args.num)
    /\ unit' = 1
    /\ pc' = "for_unit"
    /\ UNCHANGED <<args, ret, idx, arr, table, stdout, mmaps, edgeitems, exc, calls>>

\* if abs(num) < 1000.0: return "%.1f%s%s" % (num, unit, suffix)
SizeofReturn ==
    /\ pc = "for_unit"
    /\ unit <= Len(Units)
    /\ LessThan1000(num)
    /\ ret' = PyStr(SizeofFormat(num, Units[unit], args.suffix))
    /\ pc' = "done"
    /\ UNCHANGED <<args, num, unit, idx, arr, table, stdout, mmaps, edgeitems, exc, calls>>

\* num /= 1000.0, and on to the next unit
SizeofDivide ==
    /\ pc = "for_unit"
    /\ unit <= Len(Units)
    /\ ~LessThan1000(num)
    /\ num' = TrueDiv1000(num)
    /\ unit' = unit + 1
    /\ UNCHANGED <<pc, args, ret, idx, arr, table, stdout, mmaps, edgeitems, exc, calls>>

\* the loop is over: return "%.1f%s%s" % (num, 'Y', suffix)
SizeofFallback ==
    /\ pc = "for_unit"
    /\ unit > Len(Units)
    /\ ret' = PyStr(SizeofFormat(num, <<"Y">>, args.suffix))
    /\ pc' = "done"
    /\ UNCHANGED <<args, num, unit, idx, arr, table, stdout, mmaps, edgeitems, exc, calls>>

SizeofNext == SizeofEnter \/ SizeofReturn \/ SizeofDivide \/ SizeofFallback

SpecSizeof == SizeofInit /\ [][SizeofNext]_vars

\* ------------------------------------------------------------------------
\* Calls of _tabulate
\* ------------------------------------------------------------------------

MaxRows == 2

T_800 == <<"8", "0", "0", ".", "0">>
T_float64 == <<"f", "l", "o", "a", "t", "6", "4">>
T_uint8 == <<"u", "i", "n", "t", "8">>

CellNames == {<<>>, <<"a">>, L_size, L_filesize}
CellValues ==
    {PyStr(<<>>), PyStr(T_800), PyInt(<<>>), PyInt(Big(100)),
     PyTuple(<<10, 10>>), PyDtype(T_float64)}
Cells == {<<n, v>> : n \in CellNames, v \in CellValues}

TabulateInit ==
    /\ pc = "tabulate"
    /\ args \in UNION {[table : [1..k -> Cells]] : k \in 0..MaxRows}
    /\ ret = None
    /\ Idle

TabulateCall ==
    /\ pc = "tabulate"
    /\ ret' = _tabulate(args.table)
    /\ pc' = "done"
    /\ UNCHANGED <<args, num, unit, idx, arr, table, stdout, mmaps, edgeitems, exc, calls>>

SpecTabulate == TabulateInit /\ [][TabulateCall]_vars

\* ------------------------------------------------------------------------
\* Calls of _array_info_table
\* ------------------------------------------------------------------------

MaxDim == 10
MaxRank == 3

Dims == {0, 1, 2, MaxDim}
Shapes == UNION {[1..k -> Dims] : k \in 0..MaxRank}

\* the elements an array of the given size may hold: floats hold any of the
\* four values, integers only 0 and 1
FloatData(size) ==
    {[zero |-> size - o - n - i, one |-> o, nan |-> n, inf |-> i] :
        <<o, n, i>> \in {<<o, n, i>> \in
            ({0, 1, size} \X {0, 1, size} \X {0, 1}) : o + n + i <= size}}
IntData(size) ==
    {[zero |-> size - o, one |-> o, nan |-> 0, inf |-> 0] : o \in {0, 1, size} \cap 0..size}

Float64(shape, data) ==
    [shape |-> shape, dtype |-> T_float64, itemsize |-> 8, data |-> data]
Uint8(shape, data) ==
    [shape |-> shape, dtype |-> T_uint8, itemsize |-> 1, data |-> data]

Arrays ==
    UNION {{Float64(s, d) : d \in FloatData(Product(s))}
           \cup {Uint8(s, d) : d \in IntData(Product(s))} : s \in Shapes}

InfoInit ==
    /\ pc = "array_info_table"
    /\ args \in [arr : Arrays, show_stats : BOOLEAN]
    /\ ret = None
    /\ Idle

InfoCall ==
    /\ pc = "array_info_table"
    /\ ret' = _array_info_table(args.arr, args.show_stats)
    /\ pc' = "done"
    /\ UNCHANGED <<args, num, unit, idx, arr, table, stdout, mmaps, edgeitems, exc, calls>>

SpecInfo == InfoInit /\ [][InfoCall]_vars

\* ------------------------------------------------------------------------
\* npyshow
\* ------------------------------------------------------------------------

MaxPaths == 3

EndsWith(s, suffix) ==
    /\ Len(s) >= Len(suffix)
    /\ SubSeq(s, Len(s) - Len(suffix) + 1, Len(s)) = suffix

DotNpy == <<".", "n", "p", "y">>

\* The files of the run.  click.Path(exists=True) lets only existing paths
\* through; a file either holds an array np.load can map, or np.load fails.
P_a == <<"a", ".", "n", "p", "y">>
P_e == <<"e", ".", "n", "p", "y">>
P_bad == <<"b", "a", "d", ".", "n", "p", "y">>
P_notes == <<"n", "o", "t", "e", "s", ".", "t", "x", "t">>
P_npy == <<"n", "p", "y">>
PathSet == {P_a, P_e, P_bad, P_notes, P_npy}

NoArray == [ok |-> FALSE]
HoldsArray(a) == [ok |-> TRUE, arr |-> a]

\* a.npy: 10 x 10 floats; e.npy: two floats, both nan; the others: no array
File(path) ==
    CASE path = P_a ->
           HoldsArray(Float64(<<10, 10>>, [zero |-> 29, one |-> 67, nan |-> 3, inf |-> 1]))
      [] path = P_e ->
           HoldsArray(Float64(<<2>>, [zero |-> 0, one |-> 0, nan |-> 2, inf |-> 0]))
      [] OTHER -> NoArray

\* the memory-mapped array np.load returns: the array, and its mapping
Mapped(a, h) ==
    [shape |-> a.shape, dtype |-> a.dtype, itemsize |-> a.itemsize, data |-> a.data,
     mmap |-> h]

\* str(arr) as numpy prints it: it depends on the array and on edgeitems
ArrText(a, edge) ==
    <<"[">> \o TupleText(a.shape) \o <<" ">> \o a.dtype \o <<" ">> \o SmallText(edge) \o <<"]">>

\* one call of click.echo, made while the path at position i was processed
Echo(what, i, text) == [echo |-> what, at |-> i, text |-> text]

ShowInit ==
    /\ pc = "npyshow"
    /\ args \in [paths : UNION {[1..k -> PathSet] : k \in 0..MaxPaths},
                 show_array : BOOLEAN, n : {2, 3}, show_stats : BOOLEAN]
    /\ ret = None
    /\ Idle

\* np.set_printoptions(edgeitems=n), then the loop starts
ShowSetPrintOptions ==
    /\ pc = "npyshow"
    /\ edgeitems' = args.n
    /\ idx' = 1
    /\ pc' = "for_path"
    /\ UNCHANGED <<args, ret, num, unit, arr, table, stdout, mmaps, exc, calls>>

\* the loop is over: the command returns
ShowReturn ==
    /\ pc = "for_path"
    /\ idx > Len(args.paths)
    /\ pc' = "done"
    /\ UNCHANGED <<args, ret, num, unit, idx, arr, table, stdout, mmaps, edgeitems, exc, calls>>

\* a variant of ShowSkip: break instead of continue
ShowSkipBreaks ==
    /\ pc = "for_path"
    /\ idx <= Len(args.paths)
    /\ ~EndsWith(args.paths[idx], DotNpy)
    /\ idx' = Len(args.paths) + 1
    /\ UNCHANGED <<pc, args, ret, num, unit, arr, table, stdout, mmaps, edgeitems, exc, calls>>

\* if not path.endswith('.npy'): continue
ShowSkip ==
    /\ pc = "for_path"
    /\ idx <= Len(args.paths)
    /\ ~EndsWith(args.paths[idx], DotNpy)
    /\ idx' = idx + 1
    /\ UNCHANGED <<pc, args, ret, num, unit, arr, table, stdout, mmaps, edgeitems, exc, calls>>

\* arr = np.load(path, mmap_mode='r'): the file is mapped
ShowLoad ==
    /\ pc = "for_path"
    /\ idx <= Len(args.paths)
    /\ EndsWith(args.paths[idx], DotNpy)
    /\ File(args.paths[idx]).ok
    /\ arr' = Mapped(File(args.paths[idx]).arr, idx)
    /\ mmaps' = mmaps \cup {idx}
    /\ pc' = "info"
    /\ UNCHANGED <<args, ret, num, unit, idx, table, stdout, edgeitems, exc, calls>>

\* a variant of ShowLoadFails: the failure is caught and the path passed over
ShowLoadFailsCaught ==
    /\ pc = "for_path"
    /\ idx <= Len(args.paths)
    /\ EndsWith(args.paths[idx], DotNpy)
    /\ ~File(args.paths[idx]).ok
    /\ idx' = idx + 1
    /\ UNCHANGED <<pc, args, ret, num, unit, arr, table, stdout, mmaps, edgeitems, exc, calls>>

\* np.load raises: nothing catches it
ShowLoadFails ==
    /\ pc = "for_path"
    /\ idx <= Len(args.paths)
    /\ EndsWith(args.paths[idx], DotNpy)
    /\ ~File(args.paths[idx]).ok
    /\ exc' = Raised("LoadError")
    /\ pc' = "aborted"
    /\ UNCHANGED <<args, ret, num, unit, idx, arr, table, stdout, mmaps, edgeitems, calls>>

\* table = _array_info_table(arr, show_stats=show_stats)
ShowInfoTable ==
    /\ pc = "info"
    /\ ~IsRaised(_array_info_table(arr, args.show_stats))
    /\ table' = _array_info_table(arr, args.show_stats)
    /\ pc' = "echo_path"
    /\ UNCHANGED <<args, ret, num, unit, idx, arr, stdout, mmaps, edgeitems, exc, calls>>

\* _array_info_table raises: nothing catches it
ShowInfoTableFails ==
    /\ pc = "info"
    /\ IsRaised(_array_info_table(arr, args.show_stats))
    /\ exc' = _array_info_table(arr, args.show_stats)
    /\ pc' = "aborted"
    /\ UNCHANGED <<args, ret, num, unit, idx, arr, table, stdout, mmaps, edgeitems, calls>>

\* click.echo(path)
ShowEchoPath ==
    /\ pc = "echo_path"
    /\ stdout' = Append(stdout, Echo("path", idx, args.paths[idx]))
    /\ pc' = "echo_table"
    /\ UNCHANGED <<args, ret, num, unit, idx, arr, table, mmaps, edgeitems, exc, calls>>

\* click.echo(_tabulate(table))
ShowEchoTable ==
    /\ pc = "echo_table"
    /\ stdout' = Append(stdout, Echo("table", idx, _tabulate(table.val).val))
    /\ pc' = "if_show_array"
    /\ UNCHANGED <<args, ret, num, unit, idx, arr, table, mmaps, edgeitems, exc, calls>>

\* if show_array: click.echo(arr)
ShowEchoArray ==
    /\ pc = "if_show_array"
    /\ args.show_array
    /\ stdout' = Append(stdout, Echo("arr", idx, ArrText(arr, edgeitems)))
    /\ pc' = "close"
    /\ UNCHANGED <<args, ret, num, unit, idx, arr, table, mmaps, edgeitems, exc, calls>>

ShowNoArray ==
    /\ pc = "if_show_array"
    /\ ~args.show_array
    /\ pc' = "close"
    /\ UNCHANGED <<args, ret, num, unit, idx, arr, table, stdout, mmaps, edgeitems, exc, calls>>

\* a variant of ShowClose: the mapping is left open
ShowCloseLeaks ==
    /\ pc = "close"
    /\ idx' = idx + 1
    /\ pc' = "for_path"
    /\ UNCHANGED <<args, ret, num, unit, arr, table, stdout, mmaps, edgeitems, exc, calls>>

\* arr._mmap.close(), and on to the next path
ShowClose ==
    /\ pc = "close"
    /\ mmaps' = mmaps \ {arr.mmap}
    /\ idx' = idx + 1
    /\ pc' = "for_path"
    /\ UNCHANGED <<args, ret, num, unit, arr, table, stdout, edgeitems, exc, calls>>

ShowNext ==
    \/ ShowSetPrintOptions \/ ShowReturn \/ ShowSkip \/ ShowLoad \/ ShowLoadFails
    \/ ShowInfoTable \/ ShowInfoTableFails \/ ShowEchoPath \/ ShowEchoTable
    \/ ShowEchoArray \/ ShowNoArray \/ ShowClose

SpecShow == ShowInit /\ [][ShowNext]_vars

\* ------------------------------------------------------------------------
\* npyplot
\* ------------------------------------------------------------------------

PlotMaxDim == 6
PlotMaxRank == 3

PlotShapes == UNION {[1..k -> 0..PlotMaxDim] : k \in 0..PlotMaxRank}

\* arr.squeeze(): the axes of size 1 are removed
Squeeze(shape) == SelectSeq(shape, LAMBDA d : d # 1)

SeqMin(s) == CHOOSE x \in {s[i] : i \in 1..Len(s)} : \A i \in 1..Len(s) : x <= s[i]
SeqMax(s) == CHOOSE x \in {s[i] : i \in 1..Len(s)} : \A i \in 1..Len(s) : x >= s[i]

\* np.argsort(shape): the axes by ascending size, equal sizes in their order
ArgSort(shape) ==
    LET before(i, j) == shape[i] < shape[j] \/ (shape[i] = shape[j] /\ i < j)
        rank(i) == 1 + Cardinality({j \in 1..Len(shape) : before(j, i)})
    IN  [k \in 1..Len(shape) |-> CHOOSE i \in 1..Len(shape) : rank(i) = k]

Reversed(s) == [k \in 1..Len(s) |-> s[Len(s) + 1 - k]]

\* np.transpose(arr, axes): axis k of the result is axis axes[k] of arr
Transposed(shape, axes) == [k \in 1..Len(shape) |-> shape[axes[k]]]

\* the array an Axes method is given: what was taken of an array of a shape
Whole(shape) == [of |-> shape, part |-> "all"]
Column(shape, k) == [of |-> shape, part |-> "column", index |-> k]
FirstChannels(shape, k) == [of |-> shape, part |-> "channels", index |-> k]

AxPlot(xs) == [method |-> "plot", args |-> xs]
AxImshow(x) == [method |-> "imshow", args |-> <<x>>]

\* a variant of MultiSeries: 3 <= m < 5
MultiSeriesBelow5(m) == 3 <= m /\ m < 5

\* 3 <= m <= 5
MultiSeries(m) == 3 <= m /\ m <= 5

PlotInit ==
    /\ pc = "npyplot"
    /\ args \in [shape : PlotShapes]
    /\ ret = None
    /\ Idle

\* plt.style.use, mpl.rcParams, plt.subplots
PlotSetup ==
    /\ pc = "npyplot"
    /\ pc' = "load"
    /\ UNCHANGED <<args, ret, num, unit, idx, arr, table, stdout, mmaps, edgeitems, exc, calls>>

\* arr = np.load(path).squeeze()
PlotLoad ==
    /\ pc = "load"
    /\ arr' = [shape |-> Squeeze(args.shape)]
    /\ pc' = "if_ndim"
    /\ UNCHANGED <<args, ret, num, unit, idx, table, stdout, mmaps, edgeitems, exc, calls>>

\* if arr.ndim == 1: ax.plot(arr)
PlotRank1 ==
    /\ pc = "if_ndim"
    /\ Len(arr.shape) = 1
    /\ calls' = Append(calls, AxPlot(<<Whole(arr.shape)>>))
    /\ pc' = "status_bar"
    /\ UNCHANGED <<args, ret, num, unit, idx, arr, table, stdout, mmaps, edgeitems, exc>>

\* elif arr.ndim == 2: the reshape, then the two if statements
PlotRank2 ==
    /\ pc = "if_ndim"
    /\ Len(arr.shape) = 2
    /\ LET m == SeqMin(arr.shape)
           M == SeqMax(arr.shape)
           reshaped == <<M, m>>
       IN  /\ arr' = [shape |-> reshaped]
           /\ calls' = calls
                \o (IF m = 2
                    THEN <<AxPlot(<<Column(reshaped, 0), Column(reshaped, 1)>>)>>
                    ELSE <<>>)
                \o (IF MultiSeries(m)
                    THEN <<AxPlot(<<Whole(reshaped)>>)>>
                    ELSE <<AxImshow(Whole(reshaped))>>)
    /\ pc' = "status_bar"
    /\ UNCHANGED <<args, ret, num, unit, idx, table, stdout, mmaps, edgeitems, exc>>

\* elif arr.ndim == 3: the transpose, then imshow of the first 3 channels
PlotRank3 ==
    /\ pc = "if_ndim"
    /\ Len(arr.shape) = 3
    /\ LET transposed == Transposed(arr.shape, Reversed(ArgSort(arr.shape)))
       IN  /\ arr' = [shape |-> transposed]
           /\ calls' = Append(calls, AxImshow(FirstChannels(transposed, 3)))
    /\ pc' = "status_bar"
    /\ UNCHANGED <<args, ret, num, unit, idx, table, stdout, mmaps, edgeitems, exc>>

\* no branch is taken for the other ranks
PlotOtherRank ==
    /\ pc = "if_ndim"
    /\ Len(arr.shape) \notin {1, 2, 3}
    /\ pc' = "status_bar"
    /\ UNCHANGED <<args, ret, num, unit, idx, arr, table, stdout, mmaps, edgeitems, exc, calls>>

\* f.canvas.window().statusBar().setVisible(False)
PlotStatusBar ==
    /\ pc = "status_bar"
    /\ pc' = "show"
    /\ UNCHANGED <<args, ret, num, unit, idx, arr, table, stdout, mmaps, edgeitems, exc, calls>>

\* plt.show() returns when the window is closed
PlotShow ==
    /\ pc = "show"
    /\ pc' = "done"
    /\ UNCHANGED <<args, ret, num, unit, idx, arr, table, stdout, mmaps, edgeitems, exc, calls>>

PlotNext ==
    \/ PlotSetup \/ PlotLoad \/ PlotRank1 \/ PlotRank2 \/ PlotRank3
    \/ PlotOtherRank \/ PlotStatusBar \/ PlotShow

SpecPlot == PlotInit /\ [][PlotNext]_vars

\* ------------------------------------------------------------------------
\* Properties of _sizeof (under SpecSizeof)
\* ------------------------------------------------------------------------

\* the unit prefixes the loop and its fall-through can print, in order
PrefixList == Units \o << <<"Y">> >>

IsDigit(c) == \E d \in 1..Len(DigitChars) : DigitChars[d] = c
DigitOf(c) == (CHOOSE d \in 1..Len(DigitChars) : DigitChars[d] = c) - 1

\* the position of the decimal point of a printed number, 0 if there is none
PointAt(text) ==
    IF \E i \in 1..Len(text) : text[i] = "."
    THEN CHOOSE i \in 1..Len(text) : text[i] = "." /\ \A j \in 1..(i - 1) : text[j] # "."
    ELSE 0

\* text is digits, a point, exactly one digit, and then anything
OneDecimal(text) ==
    LET p == PointAt(text)
    IN  /\ p >= 2
        /\ Len(text) >= p + 1
        /\ \A i \in (1..(p + 1)) \ {p} : IsDigit(text[i])

\* the printed number, in tenths, and what follows it
PrintedTenths(text) ==
    LET p == PointAt(text)
    IN  FromDigits([i \in 1..p |-> DigitOf(text[IF i = p THEN p + 1 ELSE i])], 10)
AfterNumber(text) == SubSeq(text, PointAt(text) + 2, Len(text))

Pow1000(k) == MulPow(<<1>>, 1000, k)
AbsDiff(a, b) == IF Leq(a, b) THEN Sub(b, a) ELSE Sub(a, b)

T_1_5M == <<"1", ".", "5", "M">>

\* C3 as stated: for 1000 <= b < 1_000_000 the returned text has the prefix
\* K and its printed one-decimal number is at least 1.0 and less than 1000.0.
C3_KiloRange ==
    (pc = "done" /\ Leq(Big(1000), args.num) /\ Lt(args.num, Big(1000000)))
    => /\ OneDecimal(ret.val)
       /\ AfterNumber(ret.val) = <<"K">> \o args.suffix
       /\ Leq(Big(10), PrintedTenths(ret.val))
       /\ Lt(PrintedTenths(ret.val), Big(10000))

\* C4: for a byte count b >= 0, _sizeof returns, after k <= 8 divisions by
\* 1000, a number with exactly one decimal digit, the k-th prefix of
\* ['', K, M, G, T, P, E, Z, Y] and the suffix.  The number is b / 1000^k
\* to one decimal (to within half a unit of the printed digit, and the
\* rounding of double arithmetic, 2^-49 of the value); k is the least
\* number of divisions that brings the magnitude below 1000, capped at 8:
\* with k < 8, b < 1000^(k+1), and with k >= 1, b is not below 1000^k (to
\* within the same rounding).  So b < 1000 gives "<b>.0" and no prefix,
\* 1_500_000 gives "1.5M", and b >= 1000^8 gives Y, not scaled further.
C4_SizeofContract ==
    pc = "done" =>
        LET b == args.num
            k == unit - 1
            P == Pow1000(k)
            T == PrintedTenths(ret.val)
        IN  /\ ret.kind = "str"
            /\ k \in 0..8
            /\ OneDecimal(ret.val)
            /\ AfterNumber(ret.val) = PrefixList[k + 1] \o args.suffix
            /\ k < 8 => Lt(b, Pow1000(k + 1))
            /\ k >= 1 => Leq(Sub(Shl(P, 49), P), Shl(b, 49))
            /\ Leq(Shl(AbsDiff(MulPow(T, 1000, k), MulSmall(b, 10)), 50),
                   Add(Shl(P, 49), MulSmall(b, 20)))
            /\ Lt(b, Big(1000)) => ret.val = IntText(b) \o <<".", "0">> \o args.suffix
            /\ b = Big(1500000) => ret.val = T_1_5M \o args.suffix
            /\ Leq(Pow1000(8), b) => k = 8

\* a byte count of 1000^9 or more has returned: Y, and a number above 1000
C4_Witness ==
    /\ pc = "done"
    /\ Leq(Pow1000(9), args.num)
    /\ unit - 1 = 8
    /\ Leq(Big(10000), PrintedTenths(ret.val))

\* ------------------------------------------------------------------------
\* Properties of _tabulate (under SpecTabulate)
\* ------------------------------------------------------------------------

\* the lines of a text: what '\n' separates
RECURSIVE SplitLines(_, _)
SplitLines(text, line) ==
    IF text = <<>> THEN <<line>>
    ELSE IF Head(text) = "\n" THEN <<line>> \o SplitLines(Tail(text), <<>>)
    ELSE SplitLines(Tail(text), Append(line, Head(text)))

Greatest(S) == CHOOSE x \in S : \A y \in S : x >= y
LabelWidth(tbl) == Greatest({Len(tbl[i][1]) : i \in 1..Len(tbl)})
ValueWidth(tbl) == Greatest({Len(Str(tbl[i][2])) : i \in 1..Len(tbl)})

\* C5: for a non-empty table, _tabulate returns rows + 2 lines: the same
\* border first and last, and between them one line per pair, in the order
\* of the pairs; every line, the borders too, is (widest label + widest
\* value + 7) long.
C5_TabulateLayout ==
    (pc = "done" /\ args.table # <<>>) =>
        /\ ret.kind = "str"
        /\ LET tbl == args.table
               lines == SplitLines(ret.val, <<>>)
               a == LabelWidth(tbl)
               b == ValueWidth(tbl)
           IN  /\ Len(lines) = Len(tbl) + 2
               /\ lines[1] = lines[Len(lines)]
               /\ \A j \in 1..Len(lines[1]) : lines[1][j] \in {"+", "-"}
               /\ \A i \in 1..Len(lines) : Len(lines[i]) = a + b + 7
               /\ \A i \in 1..Len(tbl) :
                    /\ SubSeq(lines[i + 1], 3, 2 + Len(tbl[i][1])) = tbl[i][1]
                    /\ SubSeq(lines[i + 1], a + 6, a + 5 + Len(Str(tbl[i][2])))
                         = Str(tbl[i][2])

\* a table of two rows whose labels and values differ in width was rendered
C5_Witness ==
    /\ pc = "done"
    /\ Len(args.table) = 2
    /\ Len(args.table[1][1]) < Len(args.table[2][1])
    /\ Len(Str(args.table[1][2])) > Len(Str(args.table[2][2]))
    /\ ret.kind = "str"

\* ------------------------------------------------------------------------
\* Properties of _array_info_table (under SpecInfo)
\* ------------------------------------------------------------------------

Labels(rows) == [i \in 1..Len(rows) |-> rows[i][1]]

BaseLabels == <<L_shape, L_dtype, L_filesize, L_size>>
StatLabels == <<L_min, L_mean, L_median, L_max, L_zero, L_nan, L_inf>>

\* C2 as stated: the filesize row is _sizeof's text for element count times
\* element size followed by the letter B; 10 x 10 elements of 8 bytes give
\* "800.0B".
C2_FilesizeInBytes ==
    (pc = "done" /\ ~IsRaised(ret)) =>
        /\ ret.val[3][1] = L_filesize
        /\ ret.val[3][2] =
             PyStr(_sizeof(Big(ArrSize(args.arr) * args.arr.itemsize), <<>>) \o <<"B">>)
        /\ (args.arr.shape = <<10, 10>> /\ args.arr.itemsize = 8)
             => ret.val[3][2] = PyStr(T_800 \o <<"B">>)

\* C6: the labels of the returned table are shape, dtype, filesize, size
\* without the statistics flag, and these four followed by min, mean,
\* median, max, zero, nan, inf with it: 4 rows or 11, nothing else.
C6_InfoLabels ==
    (pc = "done" /\ ~IsRaised(ret)) =>
        /\ ret.kind = "list"
        /\ Labels(ret.val) =
             IF args.show_stats THEN BaseLabels \o StatLabels ELSE BaseLabels
        /\ Len(ret.val) = IF args.show_stats THEN 11 ELSE 4

\* a table with statistics was returned for an array that holds a nan
C6_Witness ==
    /\ pc = "done"
    /\ args.show_stats
    /\ args.arr.data.nan > 0
    /\ ~IsRaised(ret)

\* ------------------------------------------------------------------------
\* Properties of npyshow (under SpecShow)
\* ------------------------------------------------------------------------

IsNpy(i) == EndsWith(args.paths[i], DotNpy)
Loads(i) == File(args.paths[i]).ok
InfoOf(i) == _array_info_table(File(args.paths[i]).arr, args.show_stats)

\* the block npyshow is to print for the path at position i: the path, the
\* rendered table (of an array a table can be built of), and the array if
\* show_array is set
Block(i) ==
    <<Echo("path", i, args.paths[i]),
      Echo("table", i, IF IsRaised(InfoOf(i)) THEN <<>> ELSE _tabulate(InfoOf(i).val).val)>>
    \o (IF args.show_array
        THEN <<Echo("arr", i, ArrText(File(args.paths[i]).arr, args.n))>>
        ELSE <<>>)

\* the blocks of the .npy paths at positions i..last, in order
RECURSIVE Blocks(_, _)
Blocks(i, last) ==
    IF i > last THEN <<>>
    ELSE (IF IsNpy(i) THEN Block(i) ELSE <<>>) \o Blocks(i + 1, last)

Finished == pc \in {"done", "aborted"}
AllLoad == \A i \in 1..Len(args.paths) : IsNpy(i) => Loads(i)
AllTablesBuild ==
    \A i \in 1..Len(args.paths) : (IsNpy(i) /\ Loads(i)) => ~IsRaised(InfoOf(i))

C8_OneMappingAtATime ==
    /\ Cardinality(mmaps) <= 1
    /\ \A h \in mmaps : h = idx /\ IsNpy(h)
    /\ pc \in {"npyshow", "for_path", "done"} => mmaps = {}

\* a second file is mapped, after the first one's mapping was closed
C8_Witness ==
    /\ pc = "info"
    /\ mmaps = {idx}
    /\ \E i \in 1..(idx - 1) : IsNpy(i)

FailingLoad ==
    pc = "for_path" /\ idx <= Len(args.paths) /\ IsNpy(idx) /\ ~Loads(idx)

\* C9: a .npy path that fails to load aborts the command there, printing
\* nothing and opening nothing; once aborted on a load, the output is the
\* complete blocks of the earlier paths, no mapping is open and the command
\* takes no further step.
C9_LoadFailureAborts ==
    /\ [][FailingLoad =>
            /\ pc' = "aborted" /\ exc' = Raised("LoadError")
            /\ UNCHANGED <<stdout, mmaps, idx>>]_vars
    /\ []((pc = "aborted" /\ exc = Raised("LoadError")) =>
            /\ IsNpy(idx) /\ ~Loads(idx)
            /\ stdout = Blocks(1, idx - 1)
            /\ mmaps = {}
            /\ ~ENABLED ShowNext)

\* the command was aborted by a load, after it had printed a block
C9_Witness ==
    /\ pc = "aborted"
    /\ exc = Raised("LoadError")
    /\ stdout # <<>>
    /\ idx < Len(args.paths)

\* ------------------------------------------------------------------------
\* Properties of npyplot (under SpecPlot)
\* ------------------------------------------------------------------------

SqueezedRank2 == Len(Squeeze(args.shape)) = 2
SmallerDim == SeqMin(Squeeze(args.shape))
LargerDim == SeqMax(Squeeze(args.shape))

\* C1 as stated: for a squeezed array of rank 2 whose smaller dimension is
\* 2, the only call is the plot of column 0 against column 1 of the array
\* reshaped to (M, 2); no image is rendered.
C1_XYPlotOnly ==
    (pc = "done" /\ SqueezedRank2 /\ SmallerDim = 2) =>
        calls = <<AxPlot(<<Column(<<LargerDim, 2>>, 0), Column(<<LargerDim, 2>>, 1)>>)>>

\* C10: for a squeezed array of rank 2 whose smaller dimension m is not 2,
\* exactly one call is made, on the array reshaped to (M, m): the plot of
\* all its columns if 3 <= m <= 5, the image otherwise.
C10_OneCallByColumns ==
    (pc = "done" /\ SqueezedRank2 /\ SmallerDim # 2) =>
        LET m == SmallerDim
            reshaped == Whole(<<LargerDim, m>>)
        IN  calls = IF m \in 3..5 THEN <<AxPlot(<<reshaped>>)>>
                    ELSE <<AxImshow(reshaped)>>

\* arrays of 5 and of 6 columns have been drawn, after a squeeze
C10_Witness ==
    /\ pc = "done"
    /\ SqueezedRank2
    /\ Len(args.shape) = 3
    /\ SmallerDim \in {5, 6}
    /\ LargerDim > SmallerDim

====
